---- MODULE Spec2Model ----
(***************************************************************************)
(* InversionIterator (src/src/_iterator.py): a group of WORLD_SIZE MPI     *)
(* processes running the same driver.  Every process owns one              *)
(* InversionIterator object; ROOT_RANK mutates the shared attributes and   *)
(* the others receive them through synchronize.  Work is handed out with   *)
(* _dispatch / _request_dispatch.                                          *)
(*                                                                         *)
(* A process is a continuation pc[p]: the sequence of instructions it has  *)
(* still to execute.  A "call" instruction is replaced, by the action of   *)
(* the method it names, by the method's own instructions; communication    *)
(* instructions (bcast, gather, barrier, serve, loop) are executed by the  *)
(* actions that model the MPI primitives.                                  *)
(***************************************************************************)
EXTENDS Integers, Sequences, FiniteSets, TLC

\* COMM.Get_size(): the number of processes of the run.
WORLD_SIZE == 3
\* _constants.ROOT_RANK
ROOT_RANK == 0
\* The largest number of task ids of one dispatch round.
MaxTasks == 2
\* The largest cfg["algorithm"]["nreal"] of the configuration file.
MaxReal == 2
\* The number of calls of iterate the driver makes.
MaxCalls == 2
\* The largest cfg["algorithm"]["niter"] of the configuration file.
MaxNiter == 1
\* The largest number of rows of an arrivals table given to the outlier filter.
MaxRows == 3
\* The largest residual of an arrival (residuals are 0 .. MaxResidual).
MaxResidual == 2
\* Twice the largest cfg["algorithm"]["outlier_removal_factor"].
MaxTwiceK == 3
\* The largest cfg["algorithm"]["nvoronoi"].
MaxCells == 3
\* The largest cfg["algorithm"]["narrival"].
MaxArrivals == 3
\* The largest number of points of a traced ray.
MaxPoints == 4
\* The largest step size of the ray tracer.
MaxStep == 2
\* The largest radius of a grid node or Voronoi cell, in node intervals.
MaxRho == 2

Ranks == 0 .. (WORLD_SIZE - 1)
Workers == Ranks \ {ROOT_RANK}

VARIABLES
    argc,       \* the command line: the configuration file's content and the driver's choice
    attr,       \* attr[p][a]: process p's copy of shared attribute a
    iiter,      \* iiter[p]: self._iiter
    stack,      \* stack[p][phase]: self._pwave_realization_stack / _swave_realization_stack
    sens,       \* ROOT's sensitivity_matrix and residuals
    pc,         \* pc[p]: the instructions process p has still to execute
    req,        \* req[w]: DISPATCH_REQUEST messages of worker w in flight to ROOT
    tx,         \* tx[w]: DISPATCH_TRANSMISSION messages in flight to worker w
    coll,       \* coll[w]: broadcast values in flight from ROOT to worker w
    gat,        \* gat[w]: gather contributions in flight from worker w to ROOT
    acc,        \* acc[w]: the worker's local accumulator of the current loop
    round,      \* history: the task count and caller of ROOT's latest _dispatch
    recvd,      \* history: recvd[w]: what w received in its current request loop
    nreq,       \* history: nreq[w]: requests w sent in its current request loop
    trace,      \* history: trace[p]: the steps p started in its current iterate call
    stale,      \* history: <<method, attribute>> read by a worker while differing from ROOT's
    nsync,      \* history: nsync[p]: synchronize calls p has entered
    syncEntry,  \* history: ROOT's attributes on entry to its two latest synchronize calls
    entry,      \* history: entry[p]: iiter and models of p on entry to its current iterate call
    upd0,       \* history: ROOT's stack lengths on entry to its latest _compute_model_update
    collectives,\* history: collectives[p]: the collective operations p completed in its current iterate call
    saved,      \* the files written: the realizations file of ROOT's last
                \* save and the travel-time table of every station
    calc        \* a function applied on its own: its name, argument and result

comm == <<req, tx, coll, gat>>
hist == <<round, recvd, nreq, trace, stale, nsync, syncEntry, entry, upd0, collectives>>
vars == <<argc, attr, iiter, stack, sens, pc, comm, acc, hist, saved, calc>>

-----------------------------------------------------------------------------
(* Values *)

\* synchronize's _all
_all == <<"arrivals", "cfg", "events", "projection_matrix", "pwave_model",
          "swave_model", "sampled_arrivals", "stations", "voronoi_cells">>

AttrNames == {_all[i] : i \in 1 .. Len(_all)}

\* Python's None as the value of an attribute (InversionIterator.__init__).
None == [ver |-> 0, tag |-> "None"]

\* A value ROOT computes: distinct from every value the attribute held before.
Fresh(old, tag) == [ver |-> old.ver + 1, tag |-> tag]

\* The same table with its columns cast to other dtypes (DataFrame.astype).
Cast(old, tag) == [old EXCEPT !.tag = tag]

\* The grid geometry (min_coords, node_intervals, npts) of the model files.
LoadedGrid == "loaded"

\* A velocity model as _dataio.parse_velocity_models returns it: values on
\* the grid of the model files.
Parsed(old) == [ver |-> old.ver + 1, tag |-> "parsed", grid |-> LoadedGrid]

\* A model rebuilt on the grid spanned by the realizations.
values_and_grid_set(old) == [ver |-> old.ver + 1, tag |-> "mean", grid |-> "mean"]

\* model.values = np.mean(stack, axis=0): the same object with other values.
values_set(old) == [old EXCEPT !.ver = @ + 1, !.tag = "mean"]

\* The dispatch sentinel (None); task ids are 1 .. T.
sentinel == 0

Phases == <<"P", "S">>

ModelOf(phase) == IF phase = "P" THEN "pwave_model" ELSE "swave_model"

-----------------------------------------------------------------------------
(* Instructions *)

Ins(op, m, arg, as, n) == [op |-> op, m |-> m, arg |-> arg, as |-> as, n |-> n]

CallI(m, arg, as, n) == Ins("call", m, arg, as, n)
RetI(m, as) == Ins("ret", m, "", as, 0)
BcastI(a) == Ins("bcast", "synchronize", a, <<>>, 0)
BarrierI(m) == Ins("barrier", m, "", <<>>, 0)
GatherI(m, n) == Ins("gather", m, "", <<>>, n)
LoopI(m) == Ins("loop", m, "", <<>>, 0)
ServeI(item) == Ins("serve", "_dispatch", "", <<>>, item)
CrashedI(m) == Ins("crashed", m, "", <<>>, 0)

RECURSIVE Rep(_, _)
Rep(s, n) == IF n = 0 THEN <<>> ELSE s \o Rep(s, n - 1)

AtOp(p, op) == pc[p] # <<>> /\ Head(pc[p]).op = op
AtCall(p, m) == AtOp(p, "call") /\ Head(pc[p]).m = m
AtRet(p, m) == AtOp(p, "ret") /\ Head(pc[p]).m = m

\* p replaces its first instruction by the instructions s.
Continue(p, s) == [pc EXCEPT ![p] = s \o Tail(pc[p])]

-----------------------------------------------------------------------------
(* The instructions of each method, after its local statements *)

\* synchronize without its final COMM.barrier().
synchronize_steps_no_barrier(attrs) ==
    [i \in 1 .. Len(attrs) |-> BcastI(attrs[i])] \o <<RetI("synchronize", attrs)>>

\* synchronize: one bcast and setattr per attribute, then COMM.barrier().
synchronize_steps(attrs) ==
    [i \in 1 .. Len(attrs) |-> BcastI(attrs[i])]
        \o <<BarrierI("synchronize"), RetI("synchronize", attrs)>>

SyncI(attrs) == CallI("synchronize", "", attrs, 0)

\* _dispatch sending one sentinel too few.
_dispatch_steps_short(T) ==
    [i \in 1 .. T |-> ServeI(i)]
        \o [i \in 1 .. (WORLD_SIZE - 2) |-> ServeI(sentinel)]
        \o <<RetI("_dispatch", <<>>)>>

\* _dispatch sending ids[0] in every turn of its first loop.
_dispatch_steps_first_id(T) ==
    [i \in 1 .. T |-> ServeI(1)]
        \o [i \in 1 .. (WORLD_SIZE - 1) |-> ServeI(sentinel)]
        \o <<RetI("_dispatch", <<>>)>>

\* _dispatch with its two loops exchanged: the sentinels first.
_dispatch_steps_sentinels_first(T) ==
    [i \in 1 .. (WORLD_SIZE - 1) |-> ServeI(sentinel)]
        \o [i \in 1 .. T |-> ServeI(i)]
        \o <<RetI("_dispatch", <<>>)>>

\* _dispatch: one recv/send per id, then one recv/send of the sentinel per
\* other rank.
_dispatch_steps(T) ==
    [i \in 1 .. T |-> ServeI(i)]
        \o [i \in 1 .. (WORLD_SIZE - 1) |-> ServeI(sentinel)]
        \o <<RetI("_dispatch", <<>>)>>

\* The body of the loop with the cells generated again after the projection
\* matrix was built.
realization_steps_cells_again(phase, adaptive) ==
    << CallI("_sample_arrivals", phase, <<>>, 0),
       CallI("_generate_voronoi_cells", phase, <<>>, IF adaptive THEN 1 ELSE 0),
       CallI("_update_projection_matrix", "", <<>>, 0),
       CallI("_generate_voronoi_cells", phase, <<>>, IF adaptive THEN 1 ELSE 0),
       CallI("_compute_sensitivity_matrix", phase, <<>>, 0),
       CallI("_compute_model_update", phase, <<>>, 0) >>

\* The body of iterate's "for ireal in range(nreal)" loop.
realization_steps(phase, adaptive) ==
    << CallI("_sample_arrivals", phase, <<>>, 0),
       CallI("_generate_voronoi_cells", phase, <<>>, IF adaptive THEN 1 ELSE 0),
       CallI("_update_projection_matrix", "", <<>>, 0),
       CallI("_compute_sensitivity_matrix", phase, <<>>, 0),
       CallI("_compute_model_update", phase, <<>>, 0) >>

\* iterate relocating the events before the travel-time tables are recomputed.
iterate_steps_relocate_first(nreal, adaptive) ==
    Rep(realization_steps("P", adaptive), nreal)
        \o Rep(realization_steps("S", adaptive), nreal)
        \o << CallI("update_models", "", <<>>, 0),
              CallI("relocate_events", "", <<>>, 0),
              CallI("compute_traveltime_lookup_tables", "", <<>>, 0),
              CallI("update_arrival_residuals", "", <<>>, 0),
              CallI("save", "", <<>>, 0),
              RetI("iterate", <<>>) >>

\* iterate, after "self.iiter += 1".
\* iterate computing the travel-time tables before update_models.
iterate_steps_tables_first(nreal, adaptive) ==
    Rep(realization_steps("P", adaptive), nreal)
        \o Rep(realization_steps("S", adaptive), nreal)
        \o << CallI("compute_traveltime_lookup_tables", "", <<>>, 0),
              CallI("update_models", "", <<>>, 0),
              CallI("relocate_events", "", <<>>, 0),
              CallI("update_arrival_residuals", "", <<>>, 0),
              CallI("save", "", <<>>, 0),
              RetI("iterate", <<>>) >>

iterate_steps(nreal, adaptive) ==
    Rep(realization_steps("P", adaptive), nreal)
        \o Rep(realization_steps("S", adaptive), nreal)
        \o << CallI("update_models", "", <<>>, 0),
              CallI("compute_traveltime_lookup_tables", "", <<>>, 0),
              CallI("relocate_events", "", <<>>, 0),
              CallI("update_arrival_residuals", "", <<>>, 0),
              CallI("save", "", <<>>, 0),
              RetI("iterate", <<>>) >>

\* "if RANK == ROOT_RANK: ... self._dispatch(ids) ..." against the worker's
\* "while True: item = self._request_dispatch() ..." of method m, followed by
\* ngather gathers.
RECURSIVE Gathers(_, _, _)
Gathers(m, from, to) ==
    IF from > to THEN <<>> ELSE <<GatherI(m, from)>> \o Gathers(m, from + 1, to)

round_steps(p, m, ngather) ==
    (IF p = ROOT_RANK THEN <<CallI("_dispatch", m, <<>>, 0)>> ELSE <<LoopI(m)>>)
        \o Gathers(m, 1, ngather)

\* compute_traveltime_lookup_tables without its COMM.barrier().
compute_traveltime_lookup_tables_steps_no_barrier(p) ==
    round_steps(p, "compute_traveltime_lookup_tables", 0)
        \o <<RetI("compute_traveltime_lookup_tables", <<>>)>>

compute_traveltime_lookup_tables_steps(p) ==
    round_steps(p, "compute_traveltime_lookup_tables", 0)
        \o << BarrierI("compute_traveltime_lookup_tables"),
              RetI("compute_traveltime_lookup_tables", <<>>) >>

\* _compute_sensitivity_matrix with a worker side of three gathers.
_compute_sensitivity_matrix_steps_three_gathers(p) ==
    round_steps(p, "_compute_sensitivity_matrix", IF p = ROOT_RANK THEN 4 ELSE 3)
        \o << BarrierI("_compute_sensitivity_matrix"),
              RetI("_compute_sensitivity_matrix", <<>>) >>

_compute_sensitivity_matrix_steps(p) ==
    round_steps(p, "_compute_sensitivity_matrix", 4)
        \o << BarrierI("_compute_sensitivity_matrix"),
              RetI("_compute_sensitivity_matrix", <<>>) >>

_generate_voronoi_cells_adaptive_steps(p) ==
    round_steps(p, "_generate_voronoi_cells_adaptive", 1)
        \o << SyncI(<<"voronoi_cells">>),
              RetI("_generate_voronoi_cells_adaptive", <<>>),
              RetI("_generate_voronoi_cells", <<>>) >>

relocate_events_steps(p) ==
    round_steps(p, "relocate_events", 1)
        \o << SyncI(<<"events">>), RetI("relocate_events", <<>>) >>

update_arrival_residuals_steps(p) ==
    round_steps(p, "update_arrival_residuals", 1)
        \o << SyncI(<<"arrivals">>), RetI("update_arrival_residuals", <<>>) >>

\* The attributes of its synchronize call, per loading method.
load_cfg_steps == <<SyncI(<<"cfg">>), RetI("load_cfg", <<>>)>>
load_event_data_steps == <<SyncI(<<"events">>), RetI("load_event_data", <<>>)>>
load_network_geometry_steps ==
    <<SyncI(<<"stations">>), RetI("load_network_geometry", <<>>)>>
load_velocity_models_steps ==
    <<SyncI(<<"pwave_model", "swave_model">>), RetI("load_velocity_models", <<>>)>>
sanitize_data_steps == <<SyncI(<<"stations">>), RetI("sanitize_data", <<>>)>>
_sample_arrivals_steps ==
    <<SyncI(<<"sampled_arrivals">>), RetI("_sample_arrivals", <<>>)>>
_generate_voronoi_cells_random_steps ==
    << SyncI(<<"voronoi_cells">>),
       RetI("_generate_voronoi_cells_random", <<>>),
       RetI("_generate_voronoi_cells", <<>>) >>
_update_projection_matrix_steps ==
    <<SyncI(<<"projection_matrix">>), RetI("_update_projection_matrix", <<>>)>>
update_models_steps ==
    <<SyncI(<<"pwave_model", "swave_model">>), RetI("update_models", <<>>)>>

\* The driver: the calls every process makes on its InversionIterator.
main(a, calls) ==
    << CallI("load_cfg", "", <<>>, 0),
       CallI("load_event_data", "", <<>>, 0),
       CallI("load_network_geometry", "", <<>>, 0),
       CallI("load_velocity_models", "", <<>>, 0),
       CallI("sanitize_data", "", <<>>, 0) >>
        \o (IF a.sync_all THEN <<CallI("synchronize", "all", <<>>, 0)>> ELSE <<>>)
        \o <<CallI("compute_traveltime_lookup_tables", "", <<>>, 0)>>
        \o Rep(<<CallI("iterate", "", <<>>, 0)>>, calls)

-----------------------------------------------------------------------------
(* Reads of shared attributes *)

\* Using an attribute that is still None raises (AttributeError/TypeError).
Missing(p, reads) == \E a \in reads : attr[p][a] = None

\* The attributes among reads whose copy on worker p differs from ROOT's.
StaleReads(p, m, reads) ==
    IF p = ROOT_RANK THEN {}
    ELSE {<<m, a>> : a \in {b \in reads : attr[p][b] # attr[ROOT_RANK][b]}}

\* p enters method m: it reads the attributes `reads`, raises if one is None,
\* and otherwise goes on with `steps`.
Enter(p, m, reads, steps) ==
    /\ stale' = stale \cup StaleReads(p, m, reads)
    /\ pc' = IF Missing(p, reads)
             THEN [pc EXCEPT ![p] = <<CrashedI(m)>>]
             ELSE Continue(p, steps)

Started(p, m, arg) == [trace EXCEPT ![p] = Append(@, <<m, arg>>)]

-----------------------------------------------------------------------------
(* Initial state: InversionIterator.__init__ on every process *)

\* No realizations file written yet.
NoFile ==
    [pwave_stack |-> <<>>, swave_stack |-> <<>>, iter |-> 0,
     traveltime |-> [station \in 1 .. MaxTasks |-> [P |-> None, S |-> None]]]

\* No function is being applied on its own: the processes run the driver.
Idle == [f |-> "None"]

\* The configuration files and drivers considered: nreal, the Voronoi
\* strategy, niter, nvoronoi, narrival (no larger than the number of
\* arrivals of a phase that pass the outlier filter), and whether the driver
\* calls synchronize() itself after loading.
Configurations ==
    [nreal : 1 .. MaxReal, adaptive : BOOLEAN, niter : {MaxNiter},
     nvoronoi : 2 .. MaxCells, narrival : 0 .. MaxArrivals,
     sync_all : BOOLEAN]

\* Every process has built its InversionIterator and is about to run the
\* driver, which makes `calls` calls of iterate.
Built(cfg0, calls) ==
    /\ argc = cfg0
    /\ attr = [p \in Ranks |-> [a \in AttrNames |-> None]]
    /\ iiter = [p \in Ranks |-> 0]
    /\ stack = [p \in Ranks |-> [P |-> <<>>, S |-> <<>>]]
    /\ sens = [phase |-> "None", cells |-> 0, sample |-> 0, nrow |-> 0,
               column_idxs |-> <<>>, nsegments |-> <<>>,
               nonzero_values |-> <<>>, residuals |-> <<>>]
    /\ pc = [p \in Ranks |-> main(cfg0, calls)]
    /\ req = [w \in Workers |-> 0]
    /\ tx = [w \in Workers |-> <<>>]
    /\ coll = [w \in Workers |-> <<>>]
    /\ gat = [w \in Workers |-> <<>>]
    /\ acc = [p \in Ranks |-> <<>>]
    /\ round = [T |-> 0, m |-> "None"]
    /\ recvd = [w \in Workers |-> <<>>]
    /\ nreq = [w \in Workers |-> 0]
    /\ trace = [p \in Ranks |-> <<>>]
    /\ stale = {}
    /\ nsync = [p \in Ranks |-> 0]
    /\ syncEntry = [i \in 0 .. 1 |-> [a \in AttrNames |-> None]]
    /\ entry = [p \in Ranks |-> [iiter |-> 0, P |-> None, S |-> None,
                                  event_id |-> <<>>, arrivals |-> <<>>]]
    /\ upd0 = [P |-> 0, S |-> 0]
    /\ collectives = [p \in Ranks |-> <<>>]
    /\ saved = NoFile

\* Every process starts the driver.
Start(cfg0, calls) == Built(cfg0, calls) /\ calc = Idle

Init == \E c \in Configurations : Start(c, MaxCalls)


-----------------------------------------------------------------------------
(* Loading *)

load_cfg(p) ==
    /\ AtCall(p, "load_cfg")
    /\ attr' = IF p = ROOT_RANK
               THEN [attr EXCEPT ![p]["cfg"] = Fresh(@, "parsed")]
               ELSE attr
    /\ pc' = Continue(p, load_cfg_steps)
    /\ UNCHANGED <<argc, saved, calc, iiter, stack, sens, comm, acc, hist>>

\* The events table parsed from a catalogue of nevents events: one row per
\* event, the events being numbered 1 .. nevents in the order of their ids.
\* rows is the event_id column.
ParsedEvents(old, nevents) ==
    [ver |-> old.ver + 1, tag |-> "parsed", rows |-> [i \in 1 .. nevents |-> i]]

\* The arrivals table parsed with it: every event has an arrival for each of
\* nkeys (network, station, phase) keys, the keys being numbered 1 .. nkeys in
\* the order of the sorted index; the rows come event by event.  residual
\* is the iteration that computed the residual (0: as loaded).
ParsedArrivals(old, nevents, nkeys) ==
    [ver |-> old.ver + 1, tag |-> "parsed",
     rows |-> [i \in 1 .. nevents * nkeys |->
                 LET event_id == ((i - 1) \div nkeys) + 1
                     key == ((i - 1) % nkeys) + 1
                 IN  [key |-> key, event_id |-> event_id,
                      time |-> 10 * event_id + key, residual |-> 0]]]

\* The catalogues considered have at least two events and two keys, so that
\* every event has several arrivals and every key several rows: the loop
\* bodies of relocate_events and update_arrival_residuals take the selection
\* dataframe.loc[event_id, fields] and arrivals.loc[(network, station, phase)]
\* to be a table, which pandas returns for a label with several rows.
load_event_data(p) ==
    /\ AtCall(p, "load_event_data")
    /\ IF p = ROOT_RANK
       THEN \E nevents \in 2 .. MaxTasks : \E nkeys \in 2 .. MaxTasks :
                attr' = [attr EXCEPT
                           ![p]["events"] = ParsedEvents(@, nevents),
                           ![p]["arrivals"] = ParsedArrivals(@, nevents, nkeys)]
       ELSE attr' = attr
    /\ pc' = Continue(p, load_event_data_steps)
    /\ UNCHANGED <<argc, saved, calc, iiter, stack, sens, comm, acc, hist>>

\* arrivals.set_index(["network", "station", "phase"]).index.unique()
Keys(arrivals) == {arrivals[i].key : i \in 1 .. Len(arrivals)}

\* The stations table parsed from a network file of nstations stations, the
\* stations being numbered 1 .. nstations in the sorted order of (network,
\* station).
ParsedStations(old, nstations) ==
    [ver |-> old.ver + 1, tag |-> "parsed", n |-> nstations]

\* The network files considered list stations that have arrivals, each once.
load_network_geometry(p) ==
    /\ AtCall(p, "load_network_geometry")
    /\ IF p = ROOT_RANK
       THEN \E nstations \in 1 .. MaxTasks :
                /\ attr[p]["arrivals"] # None =>
                        nstations <= Cardinality(Keys(attr[p]["arrivals"].rows))
                /\ attr' = [attr EXCEPT
                              ![p]["stations"] = ParsedStations(@, nstations)]
       ELSE attr' = attr
    /\ pc' = Continue(p, load_network_geometry_steps)
    /\ UNCHANGED <<argc, saved, calc, iiter, stack, sens, comm, acc, hist>>

load_velocity_models(p) ==
    /\ AtCall(p, "load_velocity_models")
    /\ LET reads == IF p = ROOT_RANK THEN {"cfg"} ELSE {}
       IN  /\ Enter(p, "load_velocity_models", reads, load_velocity_models_steps)
           /\ attr' = IF p = ROOT_RANK /\ ~Missing(p, reads)
                      THEN [attr EXCEPT ![p]["pwave_model"] = Parsed(@),
                                        ![p]["swave_model"] = Parsed(@)]
                      ELSE attr
    /\ UNCHANGED <<argc, saved, calc, iiter, stack, sens, comm, acc>>
    /\ UNCHANGED <<round, recvd, nreq, trace, nsync, syncEntry, entry, upd0, collectives>>

sanitize_data(p) ==
    /\ AtCall(p, "sanitize_data")
    /\ LET reads == IF p = ROOT_RANK THEN {"stations", "arrivals"} ELSE {}
       IN  /\ Enter(p, "sanitize_data", reads, sanitize_data_steps)
           /\ attr' = IF p = ROOT_RANK /\ ~Missing(p, reads)
                      THEN [attr EXCEPT ![p]["stations"] =
                                [@ EXCEPT !.ver = @ + 1, !.tag = "sanitized"]]
                      ELSE attr
    /\ UNCHANGED <<argc, saved, calc, iiter, stack, sens, comm, acc>>
    /\ UNCHANGED <<round, recvd, nreq, trace, nsync, syncEntry, entry, upd0, collectives>>

-----------------------------------------------------------------------------
(* synchronize and the collectives *)

synchronize(p) ==
    /\ AtCall(p, "synchronize")
    /\ LET attrs == IF Head(pc[p]).arg = "all" THEN _all ELSE Head(pc[p]).as
       IN  pc' = Continue(p, synchronize_steps(attrs))
    /\ nsync' = [nsync EXCEPT ![p] = @ + 1]
    /\ syncEntry' = IF p = ROOT_RANK
                    THEN [syncEntry EXCEPT ![(nsync[p] + 1) % 2] = attr[p]]
                    ELSE syncEntry
    /\ UNCHANGED <<argc, saved, calc, attr, iiter, stack, sens, comm, acc>>
    /\ UNCHANGED <<round, recvd, nreq, trace, stale, entry, upd0, collectives>>

\* The collective operation at the head of each program of ps is completed.
Completed(ps) ==
    [p \in Ranks |->
        IF p \in ps
        THEN Append(collectives[p], <<Head(pc[p]).op, Head(pc[p]).m>>)
        ELSE collectives[p]]

\* value = COMM.bcast(value, root=ROOT_RANK); setattr(self, attr, value)
bcast(p) ==
    /\ AtOp(p, "bcast")
    /\ LET a == Head(pc[p]).arg
       IN  IF p = ROOT_RANK
           THEN /\ coll' = [w \in Workers |-> Append(coll[w], attr[p][a])]
                /\ attr' = [attr EXCEPT ![p][a] = attr[p][a]]
           ELSE /\ coll[p] # <<>>
                /\ attr' = [attr EXCEPT ![p][a] = Head(coll[p])]
                /\ coll' = [coll EXCEPT ![p] = Tail(@)]
    /\ pc' = Continue(p, <<>>)
    /\ collectives' = Completed({p})
    /\ UNCHANGED <<argc, saved, calc, iiter, stack, sens, req, tx, gat, acc>>
    /\ UNCHANGED <<round, recvd, nreq, trace, stale, nsync, syncEntry, entry, upd0>>

\* COMM.barrier(): no process leaves before every process has arrived.
barrier ==
    /\ \A p \in Ranks : AtOp(p, "barrier")
    /\ pc' = [p \in Ranks |-> Tail(pc[p])]
    /\ collectives' = Completed(Ranks)
    /\ UNCHANGED <<argc, saved, calc, attr, iiter, stack, sens, comm, acc>>
    /\ UNCHANGED <<round, recvd, nreq, trace, stale, nsync, syncEntry, entry, upd0>>

\* The contributions of ranks from .. WORLD_SIZE - 1, concatenated in rank order
\* (ROOT contributes None, which the callers drop).
RECURSIVE Concatenated(_)
Concatenated(from) ==
    IF from > WORLD_SIZE - 1 THEN <<>>
    ELSE Head(gat[from]) \o Concatenated(from + 1)

\* np.stack raises ValueError on an empty list: ROOT's statements after the
\* gather of _generate_voronoi_cells_adaptive fail when no worker traced a ray.
NothingToStack(m, gathered) ==
    m = "_generate_voronoi_cells_adaptive" /\ gathered = <<>>

\* ROOT's local results of the gathers of method m: the four concatenated
\* arrays column_idxs, nsegments, nonzero_values and residuals, in this
\* order, in _compute_sensitivity_matrix; the concatenated table or list in
\* the methods with one gather.
gathered(p, m) ==
    IF m = "_compute_sensitivity_matrix"
    THEN Append(acc[p], Concatenated(1))
    ELSE Concatenated(1)

\* COMM.gather(x, root=ROOT_RANK), with ROOT's statements that follow it.
gather(p) ==
    /\ AtOp(p, "gather")
    /\ LET m == Head(pc[p]).m
           n == Head(pc[p]).n
       IN  IF p # ROOT_RANK
           THEN /\ gat' = [gat EXCEPT ![p] = Append(@, acc[p])]
                /\ UNCHANGED <<attr, sens, acc>>
           ELSE /\ \A w \in Workers : gat[w] # <<>>
                /\ gat' = [w \in Workers |-> Tail(gat[w])]
                /\ acc' = [acc EXCEPT ![p] = gathered(p, m)]
                /\ attr' =
                     CASE NothingToStack(m, Concatenated(1)) -> attr
                       [] m = "_generate_voronoi_cells_adaptive" ->
                            [attr EXCEPT ![p]["voronoi_cells"] =
                                [ver |-> @.ver + 1, tag |-> "adaptive",
                                 npts |-> Len(Concatenated(1))]]
                       [] m = "relocate_events" ->
                            [attr EXCEPT ![p]["events"] =
                                [ver |-> @.ver + 1, tag |-> "converted",
                                 rows |-> Concatenated(1)]]
                       [] m = "update_arrival_residuals" ->
                            [attr EXCEPT ![p]["arrivals"] =
                                [ver |-> @.ver + 1, tag |-> "converted",
                                 rows |-> Concatenated(1)]]
                       [] OTHER -> attr
                /\ sens' =
                     IF m = "_compute_sensitivity_matrix" /\ n = 4
                     THEN [phase |-> attr[p]["sampled_arrivals"].tag,
                           cells |-> attr[p]["voronoi_cells"].ver,
                           sample |-> attr[p]["sampled_arrivals"].ver,
                           nrow |-> Len(gathered(p, m)[2]),
                           column_idxs |-> gathered(p, m)[1],
                           nsegments |-> gathered(p, m)[2],
                           nonzero_values |-> gathered(p, m)[3],
                           residuals |-> gathered(p, m)[4]]
                     ELSE sens
    /\ pc' = IF p = ROOT_RANK /\ NothingToStack(Head(pc[p]).m, Concatenated(1))
             THEN [pc EXCEPT ![p] = <<CrashedI(Head(pc[p]).m)>>]
             ELSE Continue(p, <<>>)
    /\ collectives' = Completed({p})
    /\ UNCHANGED <<argc, saved, calc, iiter, stack, req, tx, coll>>
    /\ UNCHANGED <<round, recvd, nreq, trace, stale, nsync, syncEntry, entry, upd0>>

-----------------------------------------------------------------------------
(* The dispatch protocol *)

Min(a, b) == IF a <= b THEN a ELSE b

\* The numbers of tasks ROOT may hand to _dispatch from method m:
\* relocate_events dispatches sorted(self.events["event_id"]), one task per
\* row of the events table (task i is the event with the i-th id);
\* update_arrival_residuals dispatches the unique keys of the arrivals (task
\* i is the i-th key); _compute_sensitivity_matrix dispatches the unique
\* stations of sampled_arrivals; _generate_voronoi_cells_adaptive dispatches
\* the unique stations of its sample of nvoronoi rows, where some station has
\* several rows (arrivals.loc[idx, "event_id"] is taken to be a column);
\* compute_traveltime_lookup_tables dispatches the stations and phases.
ntasks(p, m) ==
    CASE m = "relocate_events" -> {Len(attr[p]["events"].rows)}
      [] m = "update_arrival_residuals" -> {Cardinality(Keys(attr[p]["arrivals"].rows))}
      [] m = "_compute_sensitivity_matrix" ->
            IF attr[p]["sampled_arrivals"].n = 0 THEN {0}
            ELSE 1 .. Min(attr[p]["sampled_arrivals"].n, MaxTasks)
      [] m = "_generate_voronoi_cells_adaptive" ->
            1 .. Min(argc.nvoronoi - 1, MaxTasks)
      [] m = "compute_traveltime_lookup_tables" -> {attr[p]["stations"].n}

\* ROOT enters _dispatch(ids); ids are the T task ids 1 .. T.
_dispatch(p) ==
    /\ p = ROOT_RANK
    /\ AtCall(p, "_dispatch")
    /\ \E T \in ntasks(p, Head(pc[p]).arg) :
         /\ pc' = Continue(p, _dispatch_steps(T))
         /\ round' = [T |-> T, m |-> Head(pc[p]).arg]
    /\ UNCHANGED <<argc, saved, calc, attr, iiter, stack, sens, comm, acc>>
    /\ UNCHANGED <<recvd, nreq, trace, stale, nsync, syncEntry, entry, upd0, collectives>>

\* A turn of a loop of _dispatch whose recv gives up when no request is
\* pending.
_dispatch_serve_or_time_out(p) ==
    /\ p = ROOT_RANK
    /\ AtOp(p, "serve")
    /\ \/ \E requesting_rank \in Workers :
              /\ req[requesting_rank] > 0
              /\ req' = [req EXCEPT ![requesting_rank] = @ - 1]
              /\ tx' = [tx EXCEPT ![requesting_rank] = Append(@, Head(pc[p]).n)]
       \/ /\ \A w \in Workers : req[w] = 0
          /\ UNCHANGED <<req, tx>>
    /\ pc' = Continue(p, <<>>)
    /\ UNCHANGED <<argc, saved, calc, attr, iiter, stack, sens, coll, gat, acc, hist>>

\* One turn of a loop of _dispatch: recv(ANY_SOURCE, DISPATCH_REQUEST_TAG),
\* then send(item, dest=requesting_rank, DISPATCH_TRANSMISSION_TAG).
_dispatch_serve(p) ==
    /\ p = ROOT_RANK
    /\ AtOp(p, "serve")
    /\ \E requesting_rank \in Workers :
         /\ req[requesting_rank] > 0
         /\ req' = [req EXCEPT ![requesting_rank] = @ - 1]
         /\ tx' = [tx EXCEPT ![requesting_rank] = Append(@, Head(pc[p]).n)]
    /\ pc' = Continue(p, <<>>)
    /\ UNCHANGED <<argc, saved, calc, attr, iiter, stack, sens, coll, gat, acc, hist>>

\* _request_dispatch, first half: send(RANK, dest=ROOT_RANK, DISPATCH_REQUEST_TAG).
_request_dispatch_send(p) ==
    /\ p # ROOT_RANK
    /\ AtOp(p, "loop")
    /\ Head(pc[p]).n = 0
    /\ req' = [req EXCEPT ![p] = @ + 1]
    /\ nreq' = [nreq EXCEPT ![p] = @ + 1]
    /\ pc' = Continue(p, <<[Head(pc[p]) EXCEPT !.n = 1]>>)
    /\ UNCHANGED <<argc, saved, calc, attr, iiter, stack, sens, tx, coll, gat, acc>>
    /\ UNCHANGED <<round, recvd, trace, stale, nsync, syncEntry, entry, upd0, collectives>>

\* The shared attributes the loop body of method m reads for one task.
BodyReads(m) ==
    CASE m = "compute_traveltime_lookup_tables" -> {"pwave_model", "swave_model"}
      [] m = "relocate_events" -> {"arrivals"}
      [] OTHER -> {}

\* The loop body of method m raises before it has read any shared attribute:
\* "vel = pykonal.fields.load(vel)" in _compute_sensitivity_matrix reads the
\* local name vel before it is bound (UnboundLocalError) for every task.
Unbound(m) == m = "_compute_sensitivity_matrix"

\* A loop body that keeps only the row of its last task (events = event).
body_last_only(p, item) == <<item>>

\* The payload of the task of station item with a single row of the sample.
event_ids_first(item) == <<item>>

\* The payload of the task of station item in _generate_voronoi_cells_adaptive:
\* the rows of the sample of nvoronoi rows at that station (row j is at
\* station ((j - 1) mod T) + 1 of the T stations).  The loop body appends one
\* point per row: "for event_id in event_ids: ... voronoi_cells.append(coords)".
event_ids(item) ==
    LET S == {j \in 1 .. argc.nvoronoi : ((j - 1) % round.T) + 1 = item}
    IN  [i \in 1 .. Cardinality(S) |-> item + (i - 1) * round.T]

\* An arrival re-emitted with its time replaced by its travel time.
updated_time_and_residual(p, arrival) ==
    [arrival EXCEPT !.residual = iiter[p], !.time = @ - 10 * arrival.event_id]

\* dict(network=network, station=station, phase=phase, event_id=event_id,
\* time=arrival_time, residual=residual) for one row of the group.
updated(p, arrival) == [arrival EXCEPT !.residual = iiter[p]]

\* The rows update_arrival_residuals appends for the key item: one for each
\* row of arrivals.loc[(network, station, phase)], in the order of the table.
updated_arrivals(p, item) ==
    LET _arrivals == SelectSeq(attr[p]["arrivals"].rows,
                               LAMBDA arrival : arrival.key = item)
    IN  [i \in 1 .. Len(_arrivals) |-> updated(p, _arrivals[i])]

\* The worker's accumulator after the loop body of its method has worked on
\* item: relocate_events appends one row, the located event, to its events
\* (events = events.append(event, ignore_index=True));
\* update_arrival_residuals appends the rows of the key;
\* _generate_voronoi_cells_adaptive appends one point per row of the station;
\* the other methods append one result per task.
body(p, item) ==
    CASE Head(pc[p]).m = "update_arrival_residuals" ->
            acc[p] \o updated_arrivals(p, item)
      [] Head(pc[p]).m = "_generate_voronoi_cells_adaptive" ->
            acc[p] \o event_ids(item)
      [] OTHER -> Append(acc[p], item)

\* A request loop without its "break".
loop_steps_no_break(p, item) == <<[Head(pc[p]) EXCEPT !.n = 0]>>

\* What the worker's "while True" loop does with the received item: leave the
\* loop on the sentinel, otherwise work on the task and request again.
loop_steps(p, item) ==
    IF item = sentinel THEN <<>> ELSE <<[Head(pc[p]) EXCEPT !.n = 0]>>

\* The loop body of compute_traveltime_lookup_tables takes time between the
\* receipt of a station and the writing of its tables.
solve_steps(m, item) ==
    IF m = "compute_traveltime_lookup_tables" /\ item # sentinel
    THEN <<Ins("solve", m, "", <<>>, item)>>
    ELSE <<>>

\* The tables "{network}.{station}.{phase}.npz" the loop body of
\* compute_traveltime_lookup_tables writes for a station: solver.tt.savez(path)
\* for phase P from self.pwave_model and for phase S from self.swave_model.
savez(p) == [P |-> attr[p]["pwave_model"], S |-> attr[p]["swave_model"]]

\* _request_dispatch, second half: recv(source=ROOT_RANK,
\* DISPATCH_TRANSMISSION_TAG), and the loop body of the caller.
_request_dispatch_recv(p) ==
    /\ p # ROOT_RANK
    /\ AtOp(p, "loop")
    /\ Head(pc[p]).n = 1
    /\ tx[p] # <<>>
    /\ LET item == Head(tx[p])
           m == Head(pc[p]).m
           reads == IF item = sentinel THEN {} ELSE BodyReads(m)
       IN  /\ tx' = [tx EXCEPT ![p] = Tail(@)]
           /\ recvd' = [recvd EXCEPT ![p] = Append(@, item)]
           /\ IF item # sentinel /\ Unbound(m)
              THEN /\ pc' = [pc EXCEPT ![p] = <<CrashedI(m)>>]
                   /\ stale' = stale
              ELSE Enter(p, m, reads, solve_steps(m, item) \o loop_steps(p, item))
           /\ acc' = IF item = sentinel \/ Missing(p, reads) \/ Unbound(m)
                     THEN acc
                     ELSE [acc EXCEPT ![p] = body(p, item)]
    /\ UNCHANGED <<argc, saved, calc, attr, iiter, stack, sens, req, coll, gat>>
    /\ UNCHANGED <<round, nreq, trace, nsync, syncEntry, entry, upd0, collectives>>

\* The rest of the loop body of compute_traveltime_lookup_tables for the
\* station received: both solvers have run, and the tables are written.
solve(p) ==
    /\ AtOp(p, "solve")
    /\ saved' = [saved EXCEPT !.traveltime[Head(pc[p]).n] = savez(p)]
    /\ pc' = Continue(p, <<>>)
    /\ UNCHANGED <<argc, calc, attr, iiter, stack, sens, comm, acc, hist>>


-----------------------------------------------------------------------------
(* The steps of an iteration *)

\* Methods with a dispatch round: the worker initialises its accumulators
\* before the loop.
Accumulators(p, reads) ==
    IF p = ROOT_RANK \/ Missing(p, reads) THEN acc ELSE [acc EXCEPT ![p] = <<>>]

compute_traveltime_lookup_tables(p) ==
    /\ AtCall(p, "compute_traveltime_lookup_tables")
    /\ LET reads == {"cfg", "stations"}
       IN  /\ Enter(p, "compute_traveltime_lookup_tables", reads,
                    compute_traveltime_lookup_tables_steps(p))
           /\ acc' = Accumulators(p, reads)
    /\ trace' = Started(p, "compute_traveltime_lookup_tables", "")
    /\ UNCHANGED <<argc, saved, calc, attr, iiter, stack, sens, comm>>
    /\ UNCHANGED <<round, recvd, nreq, nsync, syncEntry, entry, upd0, collectives>>

\* An iteration counter that stops at niter.
next_iiter_capped(p) == IF iiter[p] >= argc.niter THEN iiter[p] ELSE iiter[p] + 1

\* self.iiter += 1
next_iiter(p) == iiter[p] + 1

iterate(p) ==
    /\ AtCall(p, "iterate")
    /\ LET reads == {"cfg"}
       IN  /\ Enter(p, "iterate", reads, iterate_steps(argc.nreal, argc.adaptive))
           /\ iiter' = IF Missing(p, reads) THEN iiter
                       ELSE [iiter EXCEPT ![p] = next_iiter(p)]
    /\ entry' = [entry EXCEPT ![p].iiter = iiter[p],
                              ![p].P = attr[p]["pwave_model"],
                              ![p].S = attr[p]["swave_model"]]
    /\ trace' = [trace EXCEPT ![p] = <<>>]
    /\ collectives' = [collectives EXCEPT ![p] = <<>>]
    /\ UNCHANGED <<argc, saved, calc, attr, stack, sens, comm, acc>>
    /\ UNCHANGED <<round, recvd, nreq, nsync, syncEntry, upd0>>

_sample_arrivals(p) ==
    /\ AtCall(p, "_sample_arrivals")
    /\ LET phase == Head(pc[p]).arg
           reads == IF p = ROOT_RANK THEN {"cfg", "arrivals"} ELSE {}
       IN  /\ Enter(p, "_sample_arrivals", reads, _sample_arrivals_steps)
           /\ attr' = IF p = ROOT_RANK /\ ~Missing(p, reads)
                      THEN [attr EXCEPT ![p]["sampled_arrivals"] =
                                [ver |-> @.ver + 1, tag |-> phase,
                                 n |-> argc.narrival]]
                      ELSE attr
           /\ trace' = Started(p, "_sample_arrivals", phase)
    /\ UNCHANGED <<argc, saved, calc, iiter, stack, sens, comm, acc>>
    /\ UNCHANGED <<round, recvd, nreq, nsync, syncEntry, entry, upd0, collectives>>

_generate_voronoi_cells_random(p) ==
    /\ AtCall(p, "_generate_voronoi_cells")
    /\ Head(pc[p]).n = 0
    /\ LET reads == IF p = ROOT_RANK THEN {"pwave_model", "cfg"} ELSE {}
       IN  /\ Enter(p, "_generate_voronoi_cells_random", reads,
                    _generate_voronoi_cells_random_steps)
           /\ attr' = IF p = ROOT_RANK /\ ~Missing(p, reads)
                      THEN [attr EXCEPT ![p]["voronoi_cells"] =
                                [ver |-> @.ver + 1, tag |-> "random",
                                 npts |-> argc.nvoronoi]]
                      ELSE attr
    /\ trace' = Started(p, "_generate_voronoi_cells", Head(pc[p]).arg)
    /\ UNCHANGED <<argc, saved, calc, iiter, stack, sens, comm, acc>>
    /\ UNCHANGED <<round, recvd, nreq, nsync, syncEntry, entry, upd0, collectives>>

\* self.sampled_arrivals.sample(n=nvoronoi) on ROOT raises ValueError when
\* sampled_arrivals has fewer than nvoronoi rows (sampling without
\* replacement).
LargerThanPopulation(p) ==
    /\ p = ROOT_RANK
    /\ attr[p]["sampled_arrivals"] # None
    /\ argc.nvoronoi > attr[p]["sampled_arrivals"].n

_generate_voronoi_cells_adaptive(p) ==
    /\ AtCall(p, "_generate_voronoi_cells")
    /\ Head(pc[p]).n = 1
    /\ LET reads == IF p = ROOT_RANK THEN {"cfg", "sampled_arrivals"}
                    ELSE {"cfg", "events"}
       IN  /\ stale' = stale \cup StaleReads(p, "_generate_voronoi_cells_adaptive", reads)
           /\ pc' = IF Missing(p, reads) \/ LargerThanPopulation(p)
                    THEN [pc EXCEPT ![p] = <<CrashedI("_generate_voronoi_cells_adaptive")>>]
                    ELSE Continue(p, _generate_voronoi_cells_adaptive_steps(p))
           /\ acc' = Accumulators(p, reads)
    /\ trace' = Started(p, "_generate_voronoi_cells", Head(pc[p]).arg)
    /\ UNCHANGED <<argc, saved, calc, attr, iiter, stack, sens, comm>>
    /\ UNCHANGED <<round, recvd, nreq, nsync, syncEntry, entry, upd0, collectives>>

_update_projection_matrix(p) ==
    /\ AtCall(p, "_update_projection_matrix")
    /\ LET reads == IF p = ROOT_RANK THEN {"cfg", "voronoi_cells", "pwave_model"}
                    ELSE {"cfg"}
       IN  /\ Enter(p, "_update_projection_matrix", reads,
                    _update_projection_matrix_steps)
           /\ attr' = IF p = ROOT_RANK /\ ~Missing(p, reads)
                      THEN [attr EXCEPT ![p]["projection_matrix"] =
                                [ver |-> @.ver + 1, tag |-> "built",
                                 cells |-> attr[p]["voronoi_cells"].ver]]
                      ELSE attr
    /\ trace' = Started(p, "_update_projection_matrix", "")
    /\ UNCHANGED <<argc, saved, calc, iiter, stack, sens, comm, acc>>
    /\ UNCHANGED <<round, recvd, nreq, nsync, syncEntry, entry, upd0, collectives>>

_compute_sensitivity_matrix(p) ==
    /\ AtCall(p, "_compute_sensitivity_matrix")
    /\ LET reads == IF p = ROOT_RANK THEN {"cfg", "sampled_arrivals"}
                    ELSE {"cfg", "sampled_arrivals", "events"}
       IN  /\ Enter(p, "_compute_sensitivity_matrix", reads,
                    _compute_sensitivity_matrix_steps(p))
           /\ acc' = Accumulators(p, reads)
    /\ trace' = Started(p, "_compute_sensitivity_matrix", Head(pc[p]).arg)
    /\ UNCHANGED <<argc, saved, calc, attr, iiter, stack, sens, comm>>
    /\ UNCHANGED <<round, recvd, nreq, nsync, syncEntry, entry, upd0, collectives>>

\* A method that runs on every rank.
root_only_every_rank(p) == TRUE

\* @_utilities.root_only(RANK): "Only the root rank performs this operation";
\* on the other ranks the call returns at once.
root_only(p) == p = ROOT_RANK

\* The array _compute_model_update appends: the iteration that made it and
\* the model values and matrices it was computed from.
realization(p, phase) ==
    [iter |-> iiter[p], base |-> attr[p][ModelOf(phase)].ver,
     proj |-> attr[p]["projection_matrix"].ver,
     cells |-> sens.cells, sample |-> sens.sample]

\* Both phases appending to the P-wave stack.
appended_to_pwave(p, phase) ==
    [stack EXCEPT ![p].P = Append(@, realization(p, phase))]

\* ROOT's stacks after _compute_model_update(phase).
appended(p, phase) ==
    IF phase = "P"
    THEN [stack EXCEPT ![p].P = Append(@, realization(p, phase))]
    ELSE [stack EXCEPT ![p].S = Append(@, realization(p, phase))]

\* Decorated root_only: the other ranks return at once.
_compute_model_update(p) ==
    /\ AtCall(p, "_compute_model_update")
    /\ LET phase == Head(pc[p]).arg
           reads == IF root_only(p)
                    THEN {ModelOf(phase), "cfg", "projection_matrix"} ELSE {}
       IN  /\ Enter(p, "_compute_model_update", reads,
                    <<RetI("_compute_model_update", <<>>)>>)
           /\ stack' = IF root_only(p) /\ ~Missing(p, reads)
                       THEN appended(p, phase) ELSE stack
           /\ upd0' = IF root_only(p)
                      THEN [P |-> Len(stack[p].P), S |-> Len(stack[p].S)]
                      ELSE upd0
           /\ trace' = Started(p, "_compute_model_update", phase)
    /\ UNCHANGED <<argc, saved, calc, attr, iiter, sens, comm, acc>>
    /\ UNCHANGED <<round, recvd, nreq, nsync, syncEntry, entry, collectives>>

\* model.values = np.mean(np.stack(realization_stack), axis=0), both phases.
update_models(p) ==
    /\ AtCall(p, "update_models")
    /\ LET reads == IF p = ROOT_RANK THEN {"pwave_model", "swave_model"} ELSE {}
       IN  /\ Enter(p, "update_models", reads, update_models_steps)
           /\ attr' = IF p = ROOT_RANK /\ ~Missing(p, reads)
                      THEN [attr EXCEPT ![p]["pwave_model"] = values_set(@),
                                        ![p]["swave_model"] = values_set(@)]
                      ELSE attr
    /\ trace' = Started(p, "update_models", "")
    /\ UNCHANGED <<argc, saved, calc, iiter, stack, sens, comm, acc>>
    /\ UNCHANGED <<round, recvd, nreq, nsync, syncEntry, entry, upd0, collectives>>

relocate_events(p) ==
    /\ AtCall(p, "relocate_events")
    /\ LET reads == IF p = ROOT_RANK THEN {"cfg", "events"}
                    ELSE {"cfg", "stations", "pwave_model", "swave_model"}
       IN  /\ Enter(p, "relocate_events", reads, relocate_events_steps(p))
           /\ acc' = Accumulators(p, reads)
           /\ entry' = IF attr[p]["events"] = None THEN entry
                       ELSE [entry EXCEPT ![p].event_id = attr[p]["events"].rows]
    /\ trace' = Started(p, "relocate_events", "")
    /\ UNCHANGED <<argc, saved, calc, attr, iiter, stack, sens, comm>>
    /\ UNCHANGED <<round, recvd, nreq, nsync, syncEntry, upd0, collectives>>

update_arrival_residuals(p) ==
    /\ AtCall(p, "update_arrival_residuals")
    /\ LET reads == IF p = ROOT_RANK THEN {"cfg", "arrivals"}
                    ELSE {"cfg", "arrivals", "events"}
       IN  /\ Enter(p, "update_arrival_residuals", reads,
                    update_arrival_residuals_steps(p))
           /\ acc' = Accumulators(p, reads)
           /\ entry' = IF attr[p]["arrivals"] = None THEN entry
                       ELSE [entry EXCEPT ![p].arrivals = attr[p]["arrivals"].rows]
    /\ trace' = Started(p, "update_arrival_residuals", "")
    /\ UNCHANGED <<argc, saved, calc, attr, iiter, stack, sens, comm>>
    /\ UNCHANGED <<round, recvd, nreq, nsync, syncEntry, upd0, collectives>>

\* np.savez(f"{path}.realizations.npz", pwave_stack=..., swave_stack=...),
\* written "if self.iiter > 0".
realizations_npz(p) ==
    IF iiter[p] > 0
    THEN [saved EXCEPT !.pwave_stack = stack[p].P, !.swave_stack = stack[p].P,
                       !.iter = iiter[p]]
    ELSE saved

\* Decorated root_only.  ROOT casts the columns of events and arrivals in
\* place (events[column] = events[column].astype(...)).
save(p) ==
    /\ AtCall(p, "save")
    /\ LET reads == IF root_only(p)
                    THEN {"pwave_model", "swave_model", "events", "arrivals"}
                    ELSE {}
       IN  /\ Enter(p, "save", reads, <<RetI("save", <<>>)>>)
           /\ attr' = IF root_only(p) /\ ~Missing(p, reads)
                      THEN [attr EXCEPT ![p]["events"] = Cast(@, "astype"),
                                        ![p]["arrivals"] = Cast(@, "astype")]
                      ELSE attr
           /\ saved' = IF root_only(p) /\ ~Missing(p, reads)
                       THEN realizations_npz(p) ELSE saved
    /\ trace' = Started(p, "save", "")
    /\ UNCHANGED <<argc, calc, iiter, stack, sens, comm, acc>>
    /\ UNCHANGED <<round, recvd, nreq, nsync, syncEntry, entry, upd0, collectives>>

\* The instructions of s after its leading "ret" instructions.
RECURSIVE Strip(_)
Strip(s) == IF s # <<>> /\ Head(s).op = "ret" THEN Strip(Tail(s)) ELSE s

\* The methods named by the leading "ret" instructions of s.
RECURSIVE Rets(_)
Rets(s) == IF s # <<>> /\ Head(s).op = "ret" THEN {Head(s).m} \cup Rets(Tail(s)) ELSE {}

\* The methods p is returning from return, innermost first, up to its next
\* statement: their local variables are gone.
Return(p) ==
    /\ AtOp(p, "ret")
    /\ pc' = [pc EXCEPT ![p] = Strip(@)]
    /\ acc' = [acc EXCEPT ![p] = <<>>]
    /\ recvd' = IF p \in Workers THEN [recvd EXCEPT ![p] = <<>>] ELSE recvd
    /\ nreq' = IF p \in Workers THEN [nreq EXCEPT ![p] = 0] ELSE nreq
    /\ round' = IF p = ROOT_RANK /\ round.m \in Rets(pc[p])
                THEN [T |-> 0, m |-> "None"] ELSE round
    /\ UNCHANGED <<argc, saved, calc, attr, iiter, stack, sens, comm>>
    /\ UNCHANGED <<trace, stale, nsync, syncEntry, entry, upd0, collectives>>

-----------------------------------------------------------------------------

Step(p) ==
    \/ load_cfg(p)
    \/ load_event_data(p)
    \/ load_network_geometry(p)
    \/ load_velocity_models(p)
    \/ sanitize_data(p)
    \/ synchronize(p)
    \/ bcast(p)
    \/ gather(p)
    \/ _dispatch(p)
    \/ _dispatch_serve(p)
    \/ _request_dispatch_send(p)
    \/ _request_dispatch_recv(p)
    \/ solve(p)
    \/ compute_traveltime_lookup_tables(p)
    \/ iterate(p)
    \/ _sample_arrivals(p)
    \/ _generate_voronoi_cells_random(p)
    \/ _generate_voronoi_cells_adaptive(p)
    \/ _update_projection_matrix(p)
    \/ _compute_sensitivity_matrix(p)
    \/ _compute_model_update(p)
    \/ update_models(p)
    \/ relocate_events(p)
    \/ update_arrival_residuals(p)
    \/ save(p)
    \/ Return(p)

Next == barrier \/ \E p \in Ranks : Step(p)

Spec == Init /\ [][Next]_vars


\* The processes run and MPI delivers: a process that can take its next
\* step takes it.
Fairness == WF_vars(barrier) /\ \A p \in Ranks : WF_vars(Step(p))

\* The runs of one iteration with nreal = 1, under fair scheduling.
InitOneIteration ==
    \E c \in {d \in Configurations : d.nreal = 1} : Start(c, 1)

FairSpec == InitOneIteration /\ [][Next]_vars /\ Fairness

-----------------------------------------------------------------------------
(* Where a process is *)

\* p is inside method m: m's return is among p's instructions.
Inside(p, m) == \E i \in 1 .. Len(pc[p]) : pc[p][i].op = "ret" /\ pc[p][i].m = m

\* p is returning from m: nothing of m is left to execute.
Returning(p, m) == m \in Rets(pc[p])

Crashed(p) == AtOp(p, "crashed")

\* ROOT is inside _dispatch.
Dispatching == AtCall(ROOT_RANK, "_dispatch") \/ AtOp(ROOT_RANK, "serve")

\* Worker w is in the request loop of its current method.
Requesting(w) == AtOp(w, "loop")

\* The workers inside the method of ROOT's current dispatch round.
InRound == {w \in Workers : round.m # "None" /\ Inside(w, round.m)}

\* How often item x was sent in the current round: received, or in flight.
Occurrences(q, x) == Cardinality({i \in 1 .. Len(q) : q[i] = x})

RECURSIVE Sum(_, _)
Sum(f, S) == IF S = {} THEN 0
             ELSE LET x == CHOOSE y \in S : TRUE IN f[x] + Sum(f, S \ {x})

Received(x) == Sum([w \in InRound |-> Occurrences(recvd[w], x)], InRound)
InFlight(x) == Sum([w \in Workers |-> Occurrences(tx[w], x)], Workers)

\* The round is over: ROOT has left _dispatch and every worker its loop.
RoundOver ==
    /\ round.m # "None"
    /\ Inside(ROOT_RANK, round.m)
    /\ ~Dispatching
    /\ \A w \in Workers : w \in InRound /\ ~Requesting(w) /\ ~Crashed(w)

-----------------------------------------------------------------------------
(* The dispatch protocol *)

\* C1: in every dispatch round each of the T task ids is received by exactly
\* one worker exactly once: no id is sent twice, none but 1 .. T is sent, and
\* when the round is over none was skipped.
C1_EachTaskExactlyOnce ==
    /\ \A x \in 1 .. MaxTasks :
         /\ Received(x) + InFlight(x) <= 1
         /\ x > round.T => Received(x) + InFlight(x) = 0
    /\ RoundOver => \A x \in 1 .. round.T : Received(x) = 1

\* A round of MaxTasks ids is over and both of two workers worked on a task.
C1_Witness ==
    /\ RoundOver
    /\ round.T = MaxTasks
    /\ \E v, w \in Workers : v # w /\ recvd[v] = <<1, sentinel>>
                             /\ Len(recvd[w]) >= 2

\* C2: in every dispatch round each worker receives exactly one sentinel, and
\* once it has it, it has no request in flight, sends none and receives no
\* further item in that round.
C2_OneSentinelThenSilence ==
    /\ \A w \in Workers :
         /\ Occurrences(tx[w], sentinel)
              + (IF w \in InRound THEN Occurrences(recvd[w], sentinel) ELSE 0) <= 1
         /\ Occurrences(recvd[w], sentinel) > 0 =>
              /\ recvd[w][Len(recvd[w])] = sentinel
              /\ Occurrences(recvd[w], sentinel) = 1
              /\ nreq[w] = Len(recvd[w])
              /\ req[w] = 0
              /\ tx[w] = <<>>
    /\ RoundOver => \A w \in Workers : Occurrences(recvd[w], sentinel) = 1

\* A worker has received two task ids and then its sentinel, and another only
\* its sentinel.
C2_Witness ==
    /\ RoundOver
    /\ \E v, w \in Workers : recvd[v] = <<sentinel>> /\ Len(recvd[w]) = 3

NoCrash == \A p \in Ranks : ~Crashed(p)

\* C3: while no process fails, every dispatch round terminates, for every
\* task count: ROOT leaves _dispatch and every worker leaves its request loop.
C3_RoundTerminates ==
    /\ (Dispatching /\ NoCrash) ~> (~Dispatching \/ ~NoCrash)
    /\ \A w \in Workers :
         (Requesting(w) /\ NoCrash) ~> (~Requesting(w) \/ ~NoCrash)

\* A round without any task is over, and so is one with fewer tasks than
\* workers.
C3_Witness ==
    /\ RoundOver
    /\ round.T < WORLD_SIZE - 1
    /\ \E w \in Workers : nreq[w] = 1


-----------------------------------------------------------------------------
(* synchronize *)

\* The synchronize calls in which q has received every attribute.
Got(q) == IF AtOp(q, "bcast") THEN nsync[q] - 1 ELSE nsync[q]

\* C4: when synchronize(attrs) returns on a process, every worker's copy of
\* every attribute of attrs is the value ROOT held on entry to the call, the
\* returning process's own copy included, and every process has received all
\* of attrs.
C4_SynchronizeDelivers ==
    \A p \in Ranks :
        Returning(p, "synchronize") =>
            LET attrs == Head(pc[p]).as
                held == syncEntry[nsync[p] % 2]
            IN  /\ \A q \in Ranks : Got(q) >= nsync[p]
                /\ \A q \in Workers \cup {p} : \A i \in 1 .. Len(attrs) :
                       attr[q][attrs[i]] = held[attrs[i]]

\* A worker returns from the synchronize of update_models holding the mean
\* models.
C4_Witness ==
    \E w \in Workers :
        /\ Returning(w, "synchronize")
        /\ Head(pc[w]).as = <<"pwave_model", "swave_model">>
        /\ attr[w]["pwave_model"].tag = "mean"
        /\ attr[w]["swave_model"] = attr[ROOT_RANK]["swave_model"]

\* The shared attributes ROOT assigns or mutates in each method.
Mutates(m) ==
    CASE m = "load_cfg" -> {"cfg"}
      [] m = "load_event_data" -> {"events", "arrivals"}
      [] m = "load_network_geometry" -> {"stations"}
      [] m = "load_velocity_models" -> {"pwave_model", "swave_model"}
      [] m = "sanitize_data" -> {"stations"}
      [] m = "_sample_arrivals" -> {"sampled_arrivals"}
      [] m = "_generate_voronoi_cells" -> {"voronoi_cells"}
      [] m = "_update_projection_matrix" -> {"projection_matrix"}
      [] m = "update_models" -> {"pwave_model", "swave_model"}
      [] m = "relocate_events" -> {"events"}
      [] m = "update_arrival_residuals" -> {"arrivals"}
      [] m = "save" -> {"events", "arrivals"}
      [] OTHER -> {}

\* C5: when an operation returns on ROOT, every worker's copy of each shared
\* attribute ROOT mutated in it equals ROOT's; in particular events and
\* arrivals after load_event_data.
C5_MutationsSynchronized ==
    \A m \in Rets(pc[ROOT_RANK]) : \A a \in Mutates(m) : \A w \in Workers :
        attr[w][a] = attr[ROOT_RANK][a]

\* C6: in a run without a synchronize call of the driver, no worker reads a
\* shared attribute whose local copy differs from ROOT's current value.
C6_WorkersReadSynchronized == ~argc.sync_all => stale = {}

-----------------------------------------------------------------------------
(* iterate *)

\* The steps of one realization, and of one call of iterate, in order.
RealizationTrace(phase) ==
    << <<"_sample_arrivals", phase>>, <<"_generate_voronoi_cells", phase>>,
       <<"_update_projection_matrix", "">>,
       <<"_compute_sensitivity_matrix", phase>>,
       <<"_compute_model_update", phase>> >>

IterationTrace ==
    Rep(RealizationTrace("P"), argc.nreal) \o Rep(RealizationTrace("S"), argc.nreal)
        \o << <<"update_models", "">>, <<"compute_traveltime_lookup_tables", "">>,
              <<"relocate_events", "">>, <<"update_arrival_residuals", "">>,
              <<"save", "">> >>

IsPrefix(s, t) == Len(s) <= Len(t) /\ \A i \in 1 .. Len(s) : s[i] = t[i]

\* C7: on every process the steps of one call of iterate start in the fixed
\* order: nreal realizations for P, then nreal for S, each sampling, Voronoi
\* cells, projection matrix, sensitivity matrix, model update; then
\* update_models, travel-time tables, relocation, residuals, save.
C7_IterateOrder ==
    \A p \in Ranks :
        /\ Inside(p, "iterate") => IsPrefix(trace[p], IterationTrace)
        /\ Returning(p, "iterate") => trace[p] = IterationTrace

\* A worker returns from an iteration of MaxReal realizations per phase.
C7_Witness ==
    \E w \in Workers :
        /\ Returning(w, "iterate")
        /\ argc.nreal = MaxReal
        /\ Len(trace[w]) = 10 * MaxReal + 5

\* C8: each call of iterate increases iiter by exactly one on every process,
\* and a call made when iiter has reached niter still runs a full iteration
\* and leaves iiter above niter.
C8_CounterAdvancesByOne ==
    \A p \in Ranks :
        /\ Inside(p, "iterate") => iiter[p] = entry[p].iiter + 1
        /\ (Returning(p, "iterate") /\ entry[p].iiter >= argc.niter) =>
               /\ iiter[p] > argc.niter
               /\ Len(trace[p]) = 10 * argc.nreal + 5

\* A worker returns from a call of iterate made with iiter = niter.
C8_Witness ==
    \E w \in Workers :
        /\ Returning(w, "iterate")
        /\ entry[w].iiter >= argc.niter
        /\ iiter[w] = argc.niter + 1

\* p is in iterate and has not started update_models.
BeforeUpdate(p) ==
    /\ Inside(p, "iterate")
    /\ \A i \in 1 .. Len(trace[p]) : trace[p][i][1] # "update_models"

Other(phase) == IF phase = "P" THEN "S" ELSE "P"

\* C9: from the start of iterate to its update_models step both live models
\* are unchanged on every process; a _compute_model_update appends exactly
\* one array to the stack of its phase and none to the other, and every array
\* of the iteration was computed from the model the iteration started with.
C9_ModelsUntouchedBeforeUpdate ==
    /\ \A p \in Ranks :
         BeforeUpdate(p) =>
             /\ attr[p]["pwave_model"] = entry[p].P
             /\ attr[p]["swave_model"] = entry[p].S
             /\ \A phase \in {"P", "S"} : \A i \in 1 .. Len(stack[p][phase]) :
                    stack[p][phase][i].iter = iiter[p] =>
                        stack[p][phase][i].base = entry[p][phase].ver
    /\ Returning(ROOT_RANK, "_compute_model_update") =>
         LET phase == trace[ROOT_RANK][Len(trace[ROOT_RANK])][2]
         IN  /\ Len(stack[ROOT_RANK][phase]) = upd0[phase] + 1
             /\ Len(stack[ROOT_RANK][Other(phase)]) = upd0[Other(phase)]
    /\ \A w \in Workers : stack[w] = [P |-> <<>>, S |-> <<>>]

\* ROOT returns from the last S-wave model update of an iteration with
\* MaxReal realizations.
C9_Witness ==
    /\ Returning(ROOT_RANK, "_compute_model_update")
    /\ argc.nreal = MaxReal
    /\ Len(trace[ROOT_RANK]) = 10 * MaxReal
    /\ Len(stack[ROOT_RANK]["S"]) >= MaxReal

\* C10: when update_models runs, each stack holds exactly nreal arrays, all
\* made in the current call of iterate.
C10_StackOfThisIteration ==
    AtCall(ROOT_RANK, "update_models") =>
        \A phase \in {"P", "S"} :
            /\ Len(stack[ROOT_RANK][phase]) = argc.nreal
            /\ \A i \in 1 .. Len(stack[ROOT_RANK][phase]) :
                   stack[ROOT_RANK][phase][i].iter = iiter[ROOT_RANK]


-----------------------------------------------------------------------------
(* save *)

\* C11: the realizations file save writes holds each phase's own stack: the
\* P-wave stack under pwave_stack and the S-wave stack under swave_stack.
C11_EnsembleHoldsBothStacks ==
    Returning(ROOT_RANK, "save") =>
        /\ saved.iter = iiter[ROOT_RANK]
        /\ saved.pwave_stack = stack[ROOT_RANK].P
        /\ saved.swave_stack = stack[ROOT_RANK].S

-----------------------------------------------------------------------------
(* Ownership of the shared attributes *)

\* C16: a worker's copy of a shared attribute changes only inside
\* synchronize, by the bcast of that attribute, to the value ROOT sent; no
\* other step of a worker assigns or mutates a shared attribute.
C16_WorkersWriteOnlyInSynchronize ==
    [][\A w \in Workers : \A a \in AttrNames :
         attr'[w][a] # attr[w][a] =>
             /\ AtOp(w, "bcast")
             /\ Head(pc[w]).arg = a
             /\ attr'[w][a] = Head(coll[w])]_vars

\* A worker has relocated an event and received the relocated events through
\* synchronize.
C16_Witness ==
    \E w \in Workers :
        /\ Returning(w, "relocate_events")
        /\ Len(recvd[w]) >= 2
        /\ attr[w]["events"].tag = "converted"
        /\ attr[w]["events"] = attr[ROOT_RANK]["events"]

-----------------------------------------------------------------------------
(* A worker that stops in the middle of a task *)

\* Worker w raised in the body of its request loop: the last item it received
\* is a task id, and it sends no further request.
MidTask(w) ==
    /\ Crashed(w)
    /\ recvd[w] # <<>>
    /\ recvd[w][Len(recvd[w])] # sentinel

\* The instructions of s that follow its return from method m.
RECURSIVE After(_, _)
After(s, m) ==
    IF s = <<>> THEN <<>>
    ELSE IF Head(s).op = "ret" /\ Head(s).m = m THEN Tail(s)
    ELSE After(Tail(s), m)

\* p has not completed the method of the current round: of its program more
\* is left than what follows the method (every process runs the same driver),
\* and not only returns.
RoundPending(p) ==
    LET rest == Len(After(pc[ROOT_RANK], round.m))
    IN  /\ Len(pc[p]) > rest
        /\ \E i \in 1 .. (Len(pc[p]) - rest) : pc[p][i].op # "ret"

-----------------------------------------------------------------------------
(* The grid of the velocity models *)

\* C19: on every process, in every state after load_velocity_models, each
\* velocity model the process holds has the loaded grid geometry, so the P
\* and S models have the same one; update_models changes only the values.
C19_GridNeverChanges ==
    \A p \in Ranks : \A phase \in {"P", "S"} :
        attr[p][ModelOf(phase)] # None =>
            /\ attr[p][ModelOf(phase)].grid = LoadedGrid
            /\ attr[p][ModelOf(Other(phase))] # None =>
                   attr[p][ModelOf(phase)].grid = attr[p][ModelOf(Other(phase))].grid

\* A worker holds the mean models of the second iteration.
C19_Witness ==
    \E w \in Workers :
        /\ Returning(w, "update_models")
        /\ iiter[w] = MaxCalls
        /\ attr[w]["pwave_model"].tag = "mean"
        /\ attr[w]["swave_model"].tag = "mean"
        /\ attr[w]["pwave_model"].ver > entry[w].P.ver

-----------------------------------------------------------------------------
(* _sample_arrivals: the outlier filter, applied on its own *)

\* s with x inserted before its first larger element.
RECURSIVE Inserted(_, _)
Inserted(s, x) ==
    IF s = <<>> THEN <<x>>
    ELSE IF x <= Head(s) THEN <<x>> \o s
    ELSE <<Head(s)>> \o Inserted(Tail(s), x)

RECURSIVE Sorted(_)
Sorted(s) == IF s = <<>> THEN <<>> ELSE Inserted(Sorted(Tail(s)), Head(s))

\* Four times Series.quantile(q = quarters/4) of the values x (pandas' default
\* linear interpolation between the order statistics around (n - 1) * q).
quantile(x, quarters) ==
    LET xs == Sorted(x)
        pos == (Len(xs) - 1) * quarters
        lower == (pos \div 4) + 1
        part == pos % 4
    IN  IF part = 0 THEN 4 * xs[lower]
        ELSE (4 - part) * xs[lower] + part * xs[lower + 1]

\* arrivals.set_index("phase").loc[phase]
OfPhase(arrivals, phase) == SelectSeq(arrivals, LAMBDA row : row.phase = phase)

Residuals(arrivals) == [i \in 1 .. Len(arrivals) |-> arrivals[i].residual]

\* Eight times min_residual and max_residual, for tukey_k = twice_k / 2.
min_residual(arrivals, twice_k) ==
    LET q1 == quantile(Residuals(arrivals), 1)
        q3 == quantile(Residuals(arrivals), 3)
    IN  2 * q1 - twice_k * (q3 - q1)

max_residual(arrivals, twice_k) ==
    LET q1 == quantile(Residuals(arrivals), 1)
        q3 == quantile(Residuals(arrivals), 3)
    IN  2 * q3 + twice_k * (q3 - q1)

\* "Remove outliers": the rows of the phase with
\* (residual > min_residual) & (residual < max_residual).
remove_outliers(arrivals, phase, twice_k) ==
    LET sub == OfPhase(arrivals, phase)
    IN  SelectSeq(sub, LAMBDA row :
            /\ 8 * row.residual > min_residual(sub, twice_k)
            /\ 8 * row.residual < max_residual(sub, twice_k))

\* The arrivals tables, phases and factors the filter is applied to; the table
\* has a row of the phase (loc[phase] raises KeyError otherwise).
ArrivalRows == [phase : {"P", "S"}, residual : 0 .. MaxResidual]

ArrivalTables == UNION {[1 .. n -> ArrivalRows] : n \in 1 .. MaxRows}

TukeyInit ==
    /\ Built([nreal |-> 1, adaptive |-> FALSE, niter |-> MaxNiter,
              nvoronoi |-> MaxCells, narrival |-> MaxArrivals,
              sync_all |-> FALSE], 0)
    /\ \E arrivals \in ArrivalTables : \E phase \in {"P", "S"} :
       \E twice_k \in 0 .. MaxTwiceK :
           /\ OfPhase(arrivals, phase) # <<>>
           /\ calc = [f |-> "remove_outliers", arrivals |-> arrivals,
                      phase |-> phase, twice_k |-> twice_k,
                      kept |-> <<>>, done |-> FALSE,
                      again |-> <<>>, redone |-> FALSE]

\* ROOT's statements of _sample_arrivals up to the filter.
filter_arrivals ==
    /\ calc.f = "remove_outliers"
    /\ ~calc.done
    /\ calc' = [calc EXCEPT
                  !.kept = remove_outliers(calc.arrivals, calc.phase, calc.twice_k),
                  !.done = TRUE]
    /\ UNCHANGED <<argc, attr, iiter, stack, sens, pc, comm, acc, hist, saved>>

\* The same statements applied to the table they produced.
filter_again ==
    /\ calc.f = "remove_outliers"
    /\ calc.done
    /\ ~calc.redone
    /\ calc' = [calc EXCEPT
                  !.again = remove_outliers(calc.kept, calc.phase, calc.twice_k),
                  !.redone = TRUE]
    /\ UNCHANGED <<argc, attr, iiter, stack, sens, pc, comm, acc, hist, saved>>

TukeyNext == filter_arrivals \/ filter_again

TukeySpec == TukeyInit /\ [][TukeyNext]_vars

\* The rows of the phase inside the closed fence
\* Q1 - k * IQR <= residual <= Q3 + k * IQR.
InClosedFence(arrivals, phase, twice_k) ==
    LET sub == OfPhase(arrivals, phase)
    IN  SelectSeq(sub, LAMBDA row :
            /\ 8 * row.residual >= min_residual(sub, twice_k)
            /\ 8 * row.residual <= max_residual(sub, twice_k))

\* C20: the outlier filter keeps exactly the rows of the requested phase whose
\* residual lies in the closed Tukey fence, Q1 - k*IQR <= r <= Q3 + k*IQR; a
\* row whose residual equals a bound is kept.
C20_KeepsClosedFence ==
    calc.done => calc.kept = InClosedFence(calc.arrivals, calc.phase, calc.twice_k)

-----------------------------------------------------------------------------
(* relocate_events *)

\* s and t hold the same elements, each as often in one as in the other.
SameRows(s, t) ==
    /\ Len(s) = Len(t)
    /\ \A i \in 1 .. Len(s) : Occurrences(s, s[i]) = Occurrences(t, s[i])

\* C17: when a process returns from relocate_events, its events table holds
\* exactly one row for each event id ROOT's table held at the call, whichever
\* worker located which event: no event is lost and none is duplicated.
C17_OneRowPerEvent ==
    \A p \in Ranks :
        Returning(p, "relocate_events") =>
            /\ SameRows(attr[p]["events"].rows, entry[ROOT_RANK].event_id)
            /\ \A i \in 1 .. Len(attr[p]["events"].rows) :
                   Occurrences(attr[p]["events"].rows, attr[p]["events"].rows[i]) = 1

\* The second worker located the first event and the first worker the second:
\* the table of a worker returning from relocate_events is in rank order.
C17_Witness ==
    \E w \in Workers :
        /\ Returning(w, "relocate_events")
        /\ entry[ROOT_RANK].event_id = <<1, 2>>
        /\ attr[w]["events"].rows = <<2, 1>>
        /\ attr[w]["events"].tag = "converted"

-----------------------------------------------------------------------------
(* update_arrival_residuals *)

\* The (network, station, phase, event id, time) tuples of an arrivals table.
Identities(arrivals) ==
    [i \in 1 .. Len(arrivals) |->
        <<arrivals[i].key, arrivals[i].event_id, arrivals[i].time>>]

\* C18: when a process returns from update_arrival_residuals, its arrivals
\* table holds the (network, station, phase, event id, time) tuples ROOT's
\* table held at the call, each exactly once, whichever worker updated which
\* key: only residuals have changed.
C18_ArrivalSetPreserved ==
    \A p \in Ranks :
        Returning(p, "update_arrival_residuals") =>
            LET after == Identities(attr[p]["arrivals"].rows)
            IN  /\ SameRows(after, Identities(entry[ROOT_RANK].arrivals))
                /\ \A i \in 1 .. Len(after) : Occurrences(after, after[i]) = 1

\* Two events with arrivals at two keys; the first worker updated the second
\* key: the table of a worker returning from update_arrival_residuals has
\* the rows in another order and new residuals.
C18_Witness ==
    \E w \in Workers :
        /\ Returning(w, "update_arrival_residuals")
        /\ Len(entry[ROOT_RANK].arrivals) = 4
        /\ attr[w]["arrivals"].rows[1].key = 2
        /\ attr[w]["arrivals"].rows[4].key = 1
        /\ \A i \in 1 .. 4 : attr[w]["arrivals"].rows[i].residual = iiter[w]
        /\ \A i \in 1 .. 4 : entry[ROOT_RANK].arrivals[i].residual < iiter[w]

-----------------------------------------------------------------------------
(* _generate_voronoi_cells *)

\* C14: a process returning from _generate_voronoi_cells holds exactly
\* nvoronoi cells, with either strategy; in the adaptive strategy ROOT
\* gathers one point for each of the nvoronoi sampled rows, whichever worker
\* traced which station, and it dispatches nothing when sampled_arrivals has
\* fewer than nvoronoi rows: the sampling raises instead.
C14_ExactlyNvoronoiCells ==
    /\ \A p \in Ranks :
           Returning(p, "_generate_voronoi_cells") =>
               attr[p]["voronoi_cells"].npts = argc.nvoronoi
    /\ Returning(ROOT_RANK, "_generate_voronoi_cells_adaptive") =>
           SameRows(acc[ROOT_RANK], [j \in 1 .. argc.nvoronoi |-> j])
    /\ Inside(ROOT_RANK, "_generate_voronoi_cells_adaptive") =>
           attr[ROOT_RANK]["sampled_arrivals"].n >= argc.nvoronoi

\* Adaptive strategy, three cells over two stations: the first worker traced
\* the station with one sampled row, the second the station with two.
C14_Witness ==
    /\ argc.adaptive
    /\ argc.nvoronoi = 3
    /\ Returning(ROOT_RANK, "_generate_voronoi_cells_adaptive")
    /\ acc[ROOT_RANK] = <<2, 1, 3>>
    /\ attr[ROOT_RANK]["voronoi_cells"].npts = 3
    /\ \A w \in Workers : attr[w]["voronoi_cells"] = attr[ROOT_RANK]["voronoi_cells"]

-----------------------------------------------------------------------------
(* _compute_sensitivity_matrix *)

\* C12: once ROOT dispatches the stations of a nonempty sampled_arrivals,
\* _compute_sensitivity_matrix completes on ROOT with a sensitivity matrix
\* and a residual vector of one row per sampled observation (len(nsegments)
\* = number of rows of sampled_arrivals).
C12_OneRowPerObservation ==
    (round.m = "_compute_sensitivity_matrix" /\ round.T > 0)
        ~> (/\ Returning(ROOT_RANK, "_compute_sensitivity_matrix")
            /\ sens.nrow = attr[ROOT_RANK]["sampled_arrivals"].n)

-----------------------------------------------------------------------------
(* A row of the sensitivity matrix in velocity-structure mode, on its own *)

\* np.unique(column_idxs): the distinct values, sorted.
RECURSIVE unique(_)
unique(x) ==
    IF x = <<>> THEN <<>>
    ELSE LET rest == unique(Tail(x))
         IN  IF \E i \in 1 .. Len(rest) : rest[i] = Head(x) THEN rest
             ELSE Inserted(rest, Head(x))

\* np.unique(column_idxs, return_counts=True)[1]
counts(x) == [i \in 1 .. Len(unique(x)) |-> Occurrences(x, unique(x)[i])]

\* counts * step_size
nonzero_values(x, step_size) ==
    [i \in 1 .. Len(counts(x)) |-> counts(x)[i] * step_size]

RECURSIVE SumSeq(_)
SumSeq(x) == IF x = <<>> THEN 0 ELSE Head(x) + SumSeq(Tail(x))

\* The traced rays: the cell nearest to each point of the ray (the result of
\* tree.query(raypath)), for rays from the station to the event.
Rays == UNION {[1 .. n -> 1 .. MaxCells] : n \in 2 .. MaxPoints}

RayInit ==
    /\ Built([nreal |-> 1, adaptive |-> FALSE, niter |-> MaxNiter,
              nvoronoi |-> MaxCells, narrival |-> MaxArrivals,
              sync_all |-> FALSE], 0)
    /\ \E nearest \in Rays : \E step_size \in 1 .. MaxStep :
           calc = [f |-> "_projected_ray_idxs", nearest |-> nearest,
                   step_size |-> step_size, column_idxs |-> <<>>,
                   nonzero_values |-> <<>>, done |-> FALSE]

\* The statements of the "if vel_invert" branch for one observation.
velocity_row ==
    /\ calc.f = "_projected_ray_idxs"
    /\ ~calc.done
    /\ calc' = [calc EXCEPT
                  !.column_idxs = unique(calc.nearest),
                  !.nonzero_values = nonzero_values(calc.nearest, calc.step_size),
                  !.done = TRUE]
    /\ UNCHANGED <<argc, attr, iiter, stack, sens, pc, comm, acc, hist, saved>>

RayNext == velocity_row

RaySpec == RayInit /\ [][RayNext]_vars

\* The length of a ray traced in steps of step_size: one step between
\* consecutive points.
RayLength(nearest, step_size) == (Len(nearest) - 1) * step_size

\* C13: in velocity-structure mode the nonzero values of the row of an
\* observation, the per-cell counts of ray points times the step size, sum to
\* the full length of the ray traced for the observation.
C13_RowSumsToRayLength ==
    calc.done =>
        SumSeq(calc.nonzero_values) = RayLength(calc.nearest, calc.step_size)

-----------------------------------------------------------------------------
(* The outlier filter applied twice *)

\* C21: the outlier filter is idempotent: applied to the table it produced,
\* with the quartiles recomputed from that table, it removes no further row.
C21_FilterIdempotent == calc.redone => calc.again = calc.kept

-----------------------------------------------------------------------------
(* _update_projection_matrix, on its own *)

\* Points in the coordinates of the model grid, on one circle of latitude:
\* a radius and a longitude in quarter turns.
Points == [rho : 1 .. MaxRho, quarter : 0 .. 3]

\* sph2xyz(point, origin=(0, 0, 0)): the Cartesian coordinates of the point.
sph2xyz(point) ==
    CASE point.quarter = 0 -> <<point.rho, 0>>
      [] point.quarter = 1 -> <<0, point.rho>>
      [] point.quarter = 2 -> <<0 - point.rho, 0>>
      [] point.quarter = 3 -> <<0, 0 - point.rho>>

\* The squared Euclidean distance of two coordinate pairs.
Distance2(a, b) ==
    (a[1] - b[1]) * (a[1] - b[1]) + (a[2] - b[2]) * (a[2] - b[2])

\* The cells nearest to a node when the coordinates are not converted.
query_unconverted(voronoi_cells, node) ==
    {k \in 1 .. Len(voronoi_cells) : \A j \in 1 .. Len(voronoi_cells) :
        Distance2(<<node.rho, node.quarter>>,
                  <<voronoi_cells[k].rho, voronoi_cells[k].quarter>>)
          <= Distance2(<<node.rho, node.quarter>>,
                       <<voronoi_cells[j].rho, voronoi_cells[j].quarter>>)}

\* tree = cKDTree(sph2xyz(voronoi_cells)); tree.query(sph2xyz(node)): the
\* cells at the least distance from the node (the tree returns one of them).
query(voronoi_cells, node) ==
    {k \in 1 .. Len(voronoi_cells) : \A j \in 1 .. Len(voronoi_cells) :
        Distance2(sph2xyz(node), sph2xyz(voronoi_cells[k]))
          <= Distance2(sph2xyz(node), sph2xyz(voronoi_cells[j]))}

\* self.pwave_model.nodes.reshape(-1, 3) of a grid of nrho radii and nquarter
\* longitudes: the nodes in row-major order.
nodes(nrho, nquarter) ==
    [i \in 1 .. nrho * nquarter |->
        [rho |-> ((i - 1) \div nquarter) + 1, quarter |-> (i - 1) % nquarter]]

ProjectionInit ==
    /\ Built([nreal |-> 1, adaptive |-> FALSE, niter |-> MaxNiter,
              nvoronoi |-> MaxCells, narrival |-> MaxArrivals,
              sync_all |-> FALSE], 0)
    /\ \E nvoronoi \in 2 .. MaxCells : \E voronoi_cells \in [1 .. nvoronoi -> Points] :
       \E nrho \in 1 .. MaxRho : \E nquarter \in 1 .. 2 :
           calc = [f |-> "_update_projection_matrix",
                   voronoi_cells |-> voronoi_cells,
                   nodes |-> nodes(nrho, nquarter),
                   shape |-> <<0, 0>>, entries |-> {}, done |-> FALSE]

\* ROOT's statements of _update_projection_matrix: coo_matrix((values,
\* (row_ids, column_ids)), shape=(nnodes, nvoronoi)) with values = ones,
\* row_ids = arange(nnodes) and column_ids from the tree.
build_projection_matrix ==
    /\ calc.f = "_update_projection_matrix"
    /\ ~calc.done
    /\ LET nnodes == Len(calc.nodes)
           nvoronoi == Len(calc.voronoi_cells)
       IN  \E column_ids \in [1 .. nnodes -> 1 .. nvoronoi] :
               /\ \A i \in 1 .. nnodes :
                      column_ids[i] \in query(calc.voronoi_cells, calc.nodes[i])
               /\ calc' = [calc EXCEPT
                             !.shape = <<nnodes, nvoronoi>>,
                             !.entries = {[row |-> i - 1, column |-> column_ids[i] - 1,
                                           value |-> 1] : i \in 1 .. nnodes},
                             !.done = TRUE]
    /\ UNCHANGED <<argc, attr, iiter, stack, sens, pc, comm, acc, hist, saved>>

ProjectionNext == build_projection_matrix

ProjectionSpec == ProjectionInit /\ [][ProjectionNext]_vars

\* C22: the projection matrix has one row per grid node and one column per
\* Voronoi cell; every row has exactly one entry, of value 1, and no cell is
\* nearer to the node of the row than the cell of the column of that entry.
C22_OneNearestCellPerNode ==
    calc.done =>
        /\ calc.shape = <<Len(calc.nodes), Len(calc.voronoi_cells)>>
        /\ \A i \in 1 .. Len(calc.nodes) :
               LET row == {e \in calc.entries : e.row = i - 1}
               IN  /\ Cardinality(row) = 1
                   /\ \A e \in row :
                          /\ e.value = 1
                          /\ e.column \in 0 .. (Len(calc.voronoi_cells) - 1)
                          /\ \A j \in 1 .. Len(calc.voronoi_cells) :
                                 Distance2(sph2xyz(calc.nodes[i]),
                                           sph2xyz(calc.voronoi_cells[e.column + 1]))
                                   <= Distance2(sph2xyz(calc.nodes[i]),
                                                sph2xyz(calc.voronoi_cells[j]))
        /\ \A e \in calc.entries : e.row \in 0 .. (Len(calc.nodes) - 1)

\* A grid of four nodes and three cells: the first node goes to the first
\* cell and the last node to the last.
C22_Witness ==
    /\ calc.done
    /\ Len(calc.nodes) = 4
    /\ Len(calc.voronoi_cells) = 3
    /\ [row |-> 0, column |-> 0, value |-> 1] \in calc.entries
    /\ [row |-> 3, column |-> 2, value |-> 1] \in calc.entries
    /\ Cardinality(calc.entries) = 4

-----------------------------------------------------------------------------
(* The order of the answers of _dispatch *)

\* The number of turns of its two loops ROOT has still to make.
RECURSIVE ServesLeft(_)
ServesLeft(s) ==
    IF s # <<>> /\ Head(s).op = "serve" THEN 1 + ServesLeft(Tail(s)) ELSE 0

\* The number of requests ROOT has answered in the round.
Answered == round.T + (WORLD_SIZE - 1) - ServesLeft(pc[ROOT_RANK])

\* The items ROOT has sent to worker w in the round, in the order sent:
\* those w has received, then those in flight.
SentTo(w) ==
    (IF w \in InRound \/ Crashed(w) THEN recvd[w] ELSE <<>>) \o tx[w]

Sent(x) == Sum([w \in Workers |-> Occurrences(SentTo(w), x)], Workers)

\* C23: inside _dispatch, the k-th request ROOT receives is answered with the
\* k-th task id when k <= T and with the sentinel when k > T: after k answers
\* exactly the ids 1 .. min(k, T) and max(k - T, 0) sentinels have been sent,
\* every worker got its ids in sequence order and a sentinel only after them,
\* and ROOT leaves _dispatch having sent WORLD_SIZE - 1 sentinels.
C23_AnswersInSequenceOrder ==
    Inside(ROOT_RANK, "_dispatch") =>
        /\ \A x \in 1 .. MaxTasks :
               Sent(x) = IF x <= Answered /\ x <= round.T THEN 1 ELSE 0
        /\ Sent(sentinel) = IF Answered > round.T THEN Answered - round.T ELSE 0
        /\ \A w \in Workers : \A i, j \in 1 .. Len(SentTo(w)) :
               i < j => SentTo(w)[i] # sentinel
                        /\ (SentTo(w)[j] # sentinel => SentTo(w)[i] < SentTo(w)[j])
        /\ AtRet(ROOT_RANK, "_dispatch") => Sent(sentinel) = WORLD_SIZE - 1

\* ROOT has handed out MaxTasks ids and one sentinel and has one sentinel to
\* send; a worker got all the ids.
C23_Witness ==
    /\ AtOp(ROOT_RANK, "serve")
    /\ Inside(ROOT_RANK, "_dispatch")
    /\ round.T = MaxTasks
    /\ Answered = MaxTasks + 1
    /\ \E w \in Workers : Len(SentTo(w)) = MaxTasks /\ SentTo(w)[1] = 1
    /\ \E w \in Workers : SentTo(w) = <<sentinel>>

-----------------------------------------------------------------------------
(* The system assembled by _compute_sensitivity_matrix *)

\* C24: once ROOT dispatches the stations of a nonempty sampled_arrivals, it
\* assembles a system in which row i and residual i belong to the same
\* observation: the four gathered arrays are concatenated in rank order,
\* there is one segment count and one residual per sampled observation, and
\* the gathered column indices and nonzero values are both as many as the
\* segment counts add up to.
C24_RowsAndResidualsAligned ==
    (round.m = "_compute_sensitivity_matrix" /\ round.T > 0)
        ~> (/\ Returning(ROOT_RANK, "_compute_sensitivity_matrix")
            /\ Len(sens.nsegments) = attr[ROOT_RANK]["sampled_arrivals"].n
            /\ Len(sens.residuals) = Len(sens.nsegments)
            /\ Len(sens.column_idxs) = SumSeq(sens.nsegments)
            /\ Len(sens.nonzero_values) = SumSeq(sens.nsegments))

-----------------------------------------------------------------------------
(* Travel-time tables *)

\* Worker w executes the loop body of relocate_events or
\* update_arrival_residuals for a task in this step: it loads travel-time
\* tables.
LoadsTraveltimes(w) ==
    /\ AtOp(w, "loop")
    /\ Head(pc[w]).m \in {"relocate_events", "update_arrival_residuals"}
    /\ Len(recvd'[w]) = Len(recvd[w]) + 1
    /\ recvd'[w][Len(recvd'[w])] # sentinel

\* C25: within iterate, when a worker loads a travel-time table in
\* relocate_events or update_arrival_residuals, the tables of every station,
\* for both phases, have been computed from the models update_models set in
\* this iteration.
C25_TablesRecomputedBeforeReads ==
    [][\A w \in Workers :
         LoadsTraveltimes(w) =>
             /\ attr[ROOT_RANK]["pwave_model"].ver > entry[ROOT_RANK].P.ver
             /\ attr[ROOT_RANK]["swave_model"].ver > entry[ROOT_RANK].S.ver
             /\ \A station \in 1 .. attr[ROOT_RANK]["stations"].n :
                    saved.traveltime[station] =
                        [P |-> attr[ROOT_RANK]["pwave_model"],
                         S |-> attr[ROOT_RANK]["swave_model"]]]_vars

\* A worker of the second iteration has an event to relocate, and the tables
\* of two stations are those of the models of that iteration.
C25_Witness ==
    \E w \in Workers :
        /\ AtOp(w, "loop")
        /\ Head(pc[w]).m = "relocate_events"
        /\ recvd[w] = <<1>>
        /\ iiter[w] = 2
        /\ attr[ROOT_RANK]["stations"].n = 2
        /\ attr[ROOT_RANK]["pwave_model"].ver > entry[ROOT_RANK].P.ver
        /\ \A station \in 1 .. 2 :
               saved.traveltime[station] =
                   [P |-> attr[w]["pwave_model"], S |-> attr[w]["swave_model"]]

-----------------------------------------------------------------------------
(* Requests and rounds *)

\* Worker w is in the same call of the method of the round as ROOT: what it
\* has to execute after the method is what ROOT has.
SameCall(w) ==
    /\ round.m # "None"
    /\ Inside(w, round.m)
    /\ After(pc[w], round.m) = After(pc[ROOT_RANK], round.m)

\* The requests of the current round ROOT has received: those the workers
\* sent in their call of the method of the round, less the pending ones.
Consumed ==
    Sum([w \in Workers |-> IF SameCall(w) \/ Crashed(w)
                           THEN nreq[w] - req[w] ELSE 0], Workers)

\* C26: requests never leak across dispatch rounds.  A worker has at most
\* one request pending, sent from its request loop; while ROOT is inside
\* _dispatch, every pending request and every answer belongs to a worker in
\* the same call of the method of the round, and the requests ROOT has
\* answered are exactly those the workers sent in that call and ROOT
\* received: T + WORLD_SIZE - 1 of them when ROOT leaves _dispatch.
C26_NoRequestAcrossRounds ==
    /\ \A w \in Workers :
           req[w] > 0 => req[w] = 1 /\ AtOp(w, "loop") /\ Head(pc[w]).n = 1
    /\ Inside(ROOT_RANK, "_dispatch") =>
           /\ \A w \in Workers :
                  (req[w] > 0 \/ tx[w] # <<>>) =>
                      SameCall(w) /\ Head(pc[w]).m = round.m
           /\ Answered = Consumed
           /\ AtRet(ROOT_RANK, "_dispatch") =>
                  Consumed = round.T + WORLD_SIZE - 1

\* ROOT leaves the _dispatch of relocate_events, which follows the round of
\* compute_traveltime_lookup_tables, having answered the requests of both
\* workers; one of them has not yet received its last answer.
C26_Witness ==
    /\ AtRet(ROOT_RANK, "_dispatch")
    /\ round.m = "relocate_events"
    /\ Consumed = round.T + WORLD_SIZE - 1
    /\ \A w \in Workers : SameCall(w) /\ nreq[w] > 0
    /\ \E w \in Workers : tx[w] # <<>>

-----------------------------------------------------------------------------
(* Collective operations *)

\* One of the two sequences continues the other.
Comparable(s, t) == IsPrefix(s, t) \/ IsPrefix(t, s)

\* No message of a round or of a collective operation is in flight.
Quiet ==
    \A w \in Workers :
        req[w] = 0 /\ tx[w] = <<>> /\ coll[w] = <<>> /\ gat[w] = <<>>

\* Every process has returned from its iterate call.
Iterated == \A p \in Ranks : iiter[p] > 0 /\ ~Inside(p, "iterate")

\* The collective operations of one call of method m, in the order of the
\* code.
gathers_then_barrier(m, n) ==
    [i \in 1 .. n |-> <<"gather", m>>] \o <<<<"barrier", m>>>>

gather_then_synchronize(m) ==
    <<<<"gather", m>>, <<"bcast", "synchronize">>, <<"barrier", "synchronize">>>>

\* Sequence t occurs in sequence s.
Occurs(t, s) ==
    \E i \in 0 .. Len(s) - Len(t) : \A j \in 1 .. Len(t) : s[i + j] = t[j]

\* C27: while no process fails, ROOT and every worker execute the same
\* sequence of collective operations during iterate: at any time the
\* operations one of them has completed continue those of the other, and they
\* are the same once both have returned; iterate returns on every process,
\* and then no message is left in flight.
C27_SameCollectives ==
    /\ [](NoCrash =>
            \A w \in Workers :
                Comparable(collectives[w], collectives[ROOT_RANK]))
    /\ \A p \in Ranks :
           (Inside(p, "iterate") /\ NoCrash) ~> (~Inside(p, "iterate") \/ ~NoCrash)
    /\ []((Iterated /\ NoCrash) =>
            /\ Quiet
            /\ \A w \in Workers : collectives[w] = collectives[ROOT_RANK])

\* Every process has returned from iterate: no worker had a task in the
\* round of _compute_sensitivity_matrix, whose four gathers and barrier every
\* process completed, as it did the gather and the synchronize of
\* relocate_events and of update_arrival_residuals.
C27_Witness ==
    /\ Iterated
    /\ NoCrash
    /\ \A p \in Ranks :
           /\ Occurs(gathers_then_barrier("_compute_sensitivity_matrix", 4),
                     collectives[p])
           /\ Occurs(gather_then_synchronize("relocate_events"), collectives[p])
           /\ Occurs(gather_then_synchronize("update_arrival_residuals"),
                     collectives[p])

-----------------------------------------------------------------------------
(* The matrices of a realization *)

\* ROOT has just run _compute_model_update.
Updated == AtRet(ROOT_RANK, "_compute_model_update")

\* The array ROOT has just appended to the stack of the phase it sampled.
latest ==
    LET s == stack[ROOT_RANK][attr[ROOT_RANK]["sampled_arrivals"].tag]
    IN  s[Len(s)]

\* C28: whenever _compute_model_update has run, the projection matrix and the
\* sensitivity matrix it combined were built from ROOT's current Voronoi
\* cells, which are the cells of every worker that has not failed, and the
\* sensitivity matrix from the current sample, of the phase of the call; the
\* appended array comes from these matrices and from no earlier one.
C28_MatricesOfThisRealization ==
    Updated =>
        LET a == attr[ROOT_RANK]
        IN  /\ a["projection_matrix"].cells = a["voronoi_cells"].ver
            /\ sens.cells = a["voronoi_cells"].ver
            /\ sens.sample = a["sampled_arrivals"].ver
            /\ sens.phase = a["sampled_arrivals"].tag
            /\ \A w \in Workers :
                   ~Crashed(w) => attr[w]["voronoi_cells"] = a["voronoi_cells"]
            /\ latest.proj = a["projection_matrix"].ver
            /\ latest.cells = a["voronoi_cells"].ver
            /\ latest.sample = a["sampled_arrivals"].ver
            /\ \A phase \in {"P", "S"} :
                   \A i \in 1 .. Len(stack[ROOT_RANK][phase]) :
                       LET r == stack[ROOT_RANK][phase][i]
                       IN  (r.proj = latest.proj \/ r.cells = latest.cells
                                \/ r.sample = latest.sample) => r = latest

\* The update of the second S-wave realization has run, after those of two
\* P-wave realizations with other cells, samples and matrices.
C28_Witness ==
    /\ Updated
    /\ Len(stack[ROOT_RANK].P) = 2
    /\ Len(stack[ROOT_RANK].S) = 2
    /\ attr[ROOT_RANK]["sampled_arrivals"].tag = "S"
    /\ sens.cells > 1
    /\ latest.cells # stack[ROOT_RANK].S[1].cells
    /\ latest.proj # stack[ROOT_RANK].P[2].proj

====
